---- MODULE Spec2Model ----
(***************************************************************************)
(* HRPowerSuite: attendance worker, midnight auto-checkout, authentication *)
(* middleware, leave/overtime request cleanup and the project time         *)
(* trackers, modelled as state machines over one set of variables.  Each   *)
(* subsystem has its own specification (SpecWorker, SpecAttendance, ...);  *)
(* a specification leaves the variables of the other subsystems at their   *)
(* initial values.                                                         *)
(*                                                                         *)
(* Units: timestamps are milliseconds; hours are kept in hundredths of an  *)
(* hour (the worker rounds to two decimals), so 800 is 8 hours.            *)
(***************************************************************************)
EXTENDS Integers, Sequences, FiniteSets, TLC

VARIABLES
    wInput,        \* worker: data of the last PROCESS_ATTENDANCE_DATA message
    wOutput,       \* worker: data of the ATTENDANCE_PROCESSED reply
    wReplied,      \* worker: the reply has been posted
    attendance,    \* attendance table: row id -> row
    now,           \* wall clock of the server, ms (local time)
    lastReset,     \* outcome of the last handleMidnightReset run
    users,         \* users table: id -> row
    sessionStore,  \* session table of express-session: sid -> session data
    cookieJar,     \* the client's session cookie
    lastLogin,     \* outcome of the last POST /api/login
    lastReq,       \* outcome of the last request to a guarded route
    lastAuth,      \* the authenticateUser call of the last handler, if
                   \* it made one, and its result
    leaveRequests,     \* leave_requests table, rows in insertion order
    overtimeRequests,  \* overtime_requests table, rows in insertion order
    nextId,        \* serial id of the next row of each request table
    reqNow,        \* clock behind submittedAt / createdAt
    created,       \* requests inserted so far in this run
    lastCreate,    \* outcome of the last POST /api/leave-requests, if
                   \* no cleanup has run since
    lastCleanup,   \* outcome of the last performCleanup run
    tracker,           \* which time tracker component is mounted
    attendanceRecord,  \* the attendance query's data for the selected date
    totalWorkHours,    \* state of the enhanced tracker
    existingTimeEntries,  \* the time entries query's data
    timeAllocations,   \* state: the allocation list being edited
    isEditing,         \* state: the editing flag
    mutation,          \* the save mutation: pending or not, and its payload
    lastSave,          \* outcome of the last saveAllocations call, if
                       \* nothing has happened since
    nextTick,      \* when the scheduler's interval timer is due next
    ticking,       \* the interval callback is about to run
    resetCount,    \* midnight resets the interval callback has run
    timers,        \* the timers armed with setInterval / setTimeout
    handle,        \* the timer ids the services hold in their fields
    timerSeq,      \* id of the next timer to be armed
    sessionBuild,  \* which source of SessionCleanupService is built
    stoppedSvcs,   \* services whose stop() returned, not started since
    lateJobs,      \* services of which a job began while stopped
    serverBuild,   \* which source of the server entry point is built
    phase,         \* the process: starting, running, closing, exited
    pc,            \* the next step of startServer
    returned,      \* the startup steps that have returned, with the
                   \* success flag of the result where there is one
    listening,     \* the HTTP server accepts connections
    everListened,  \* server.listen has been called
    startupThrew,  \* a step of startServer threw
    exitCode,      \* the code of process.exit, Null while alive
    shutdownRan,   \* the shutdown handler has run
    leftRunning,   \* services with armed timers when it finished
    regCalls,      \* the createUser calls, each with its position
    uniqueIndex,   \* the users table enforces unique usernames and emails
    lastSetup,     \* outcome of the last setupDatabase run
    sockets,       \* the WebSocket connections accepted so far
    clients,       \* the clients map: userId -> connection
    lastChat       \* the last message event handled and the sends it made

workerVars == << wInput, wOutput, wReplied >>
attVars == << attendance, now, lastReset >>
authVars == << users, sessionStore, cookieJar, lastLogin, lastReq, lastAuth >>
reqVars == << leaveRequests, overtimeRequests, nextId, reqNow, created,
             lastCreate, lastCleanup >>
trkVars == << tracker, attendanceRecord, totalWorkHours, existingTimeEntries,
             timeAllocations, isEditing, mutation, lastSave >>
tickVars == << nextTick, ticking, resetCount >>
timerVars == << timers, handle, timerSeq, sessionBuild, stoppedSvcs,
               lateJobs >>
procVars == << serverBuild, phase, pc, returned, listening, everListened,
              startupThrew, exitCode, shutdownRan, leftRunning >>
userVars == << regCalls, uniqueIndex, lastSetup >>
wsVars == << sockets, clients, lastChat >>
svcVars == << tickVars, timerVars, procVars, userVars, wsVars >>
vars == << workerVars, attVars, authVars, reqVars, trkVars, svcVars >>

\* JavaScript null / undefined / missing timestamp.
Null == -1

MsPerHour == 60 * 60 * 1000
MsPerCentiHour == MsPerHour \div 100

(***************************************************************************)
(* Service worker (src/unnamed/part_000)                                   *)
(***************************************************************************)

\* Math.round(x * 100) / 100 for x = diff / MsPerHour, in hundredths of an
\* hour.  Math.round rounds halves towards +infinity: floor(y + 1/2).
\* (diff / MsPerHour) * 100 = diff / MsPerCentiHour.
RoundCentiHours(diff) == (2 * diff + MsPerCentiHour) \div (2 * MsPerCentiHour)

calculateWorkHours_NoRound(checkIn, checkOut) ==
    IF checkIn = Null \/ checkOut = Null THEN 0
    ELSE (checkOut - checkIn) \div MsPerCentiHour

calculateWorkHours(checkIn, checkOut) ==
    IF checkIn = Null \/ checkOut = Null THEN 0
    ELSE RoundCentiHours(checkOut - checkIn)

calculateOvertime_NoMax(checkIn, checkOut) ==
    calculateWorkHours(checkIn, checkOut) - 800

calculateOvertime(checkIn, checkOut) ==
    LET totalHours == calculateWorkHours(checkIn, checkOut)
    IN  IF totalHours - 800 > 0 THEN totalHours - 800 ELSE 0

determineStatus_KeepStatus(record) ==
    IF record.checkIn = Null THEN "absent"
    ELSE IF record.checkOut = Null THEN "present"
    ELSE record.status

determineStatus(record) ==
    IF record.checkIn = Null THEN "absent"
    ELSE IF record.checkOut = Null THEN "present"
    ELSE "completed"

\* { ...record, k1: v1, ... }: the keys of upd replace or extend record.
Spread(record, upd) ==
    [k \in (DOMAIN record) \cup (DOMAIN upd) |->
        IF k \in DOMAIN upd THEN upd[k] ELSE record[k]]

processRecord(record) ==
    Spread(record,
           [totalHours |-> calculateWorkHours(record.checkIn, record.checkOut),
            overtime   |-> calculateOvertime(record.checkIn, record.checkOut),
            status     |-> determineStatus(record)])

processAttendanceData(attendanceArray) ==
    [i \in 1..Len(attendanceArray) |-> processRecord(attendanceArray[i])]

\* Timestamps the worker is exercised with: exactly 8 h apart, 8 h + 18 s
\* apart (the first difference that rounds up to 8.01 h), and reversed.
WTimes == {0, 8 * MsPerHour, 8 * MsPerHour + 18000}
WTimesOrNull == WTimes \cup {Null}

MaxBatch == 2

\* Records as the attendance API returns them, and records that already
\* carry a totalHours field (the AttendanceRecord shape of the project time
\* tracker).
WBaseRecords ==
    [checkIn : WTimesOrNull, checkOut : WTimesOrNull,
     status : {"present", "incomplete"}, workingHours : {0}]
WRecords ==
    WBaseRecords \cup
    { Spread(r, [totalHours |-> 500]) : r \in WBaseRecords }

WBatches == UNION { [1..n -> WRecords] : n \in 0..MaxBatch }

\* self.addEventListener('message') with type PROCESS_ATTENDANCE_DATA.
WorkerMessage ==
    /\ ~wReplied
    /\ wOutput' = processAttendanceData(wInput)
    /\ wReplied' = TRUE
    /\ UNCHANGED << wInput, attVars, authVars, reqVars, trkVars, svcVars >>

(***************************************************************************)
(* Attendance table and midnight auto-checkout                             *)
(* (src/server/attendance-scheduler.ts, src/server/routes-broken.ts)       *)
(***************************************************************************)

MsPerDay == 24 * MsPerHour
MsPerMinute == 60 * 1000

\* new Date() with setHours(0, 0, 0, 0).
StartOfDay(t) == (t \div MsPerDay) * MsPerDay

\* yesterday.setDate(getDate() - 1); yesterday.setHours(23, 59, 59, 999).
YesterdayEnd_Today(t) == StartOfDay(t) + MsPerDay - 1

YesterdayEnd(t) == StartOfDay(t) - 1

\* now.getHours() === 0 && now.getMinutes() === 0
isMidnight(t) == (t % MsPerDay) < MsPerMinute

\* Instants the clock passes through: a morning, 8 h 18 s later, the last
\* millisecond of the day, midnight, and 30 s into the midnight minute.
Instants ==
    { MsPerDay + 9 * MsPerHour,
      MsPerDay + 17 * MsPerHour + 18000,
      2 * MsPerDay - 1,
      2 * MsPerDay,
      2 * MsPerDay + 30000 }

FirstInstant == CHOOSE t \in Instants : \A u \in Instants : t <= u

AttUsers == {1, 2}

MaxRecords == 2

\* The page drops its processed copy when the rows change (query refetch).
WorkerCleared ==
    /\ wInput' = << >>
    /\ wOutput' = << >>
    /\ wReplied' = FALSE

NoReset == [ran |-> FALSE, ok |-> FALSE, at |-> 0, yesterday |-> 0, selected |-> {}]

\* The .set({...}) of the auto-checkout, applied to one row.
AutoCheckout_Completed(record, yesterday) ==
    [record EXCEPT !.checkOut = yesterday,
                   !.checkOutLocation = "Auto Check-out (Midnight)",
                   !.workingHours = 0,
                   !.overtimeHours = 0,
                   !.status = "completed"]

AutoCheckout_Hours(record, yesterday) ==
    [record EXCEPT !.checkOut = yesterday,
                   !.checkOutLocation = "Auto Check-out (Midnight)",
                   !.workingHours = calculateWorkHours(record.checkIn, yesterday),
                   !.overtimeHours = calculateOvertime(record.checkIn, yesterday),
                   !.status = "incomplete"]

AutoCheckout(record, yesterday) ==
    [record EXCEPT !.checkOut = yesterday,
                   !.checkOutLocation = "Auto Check-out (Midnight)",
                   !.workingHours = 0,
                   !.overtimeHours = 0,
                   !.status = "incomplete"]

UncompletedRecords_AnyCheckOut(table, yesterday) ==
    { i \in DOMAIN table :
        /\ table[i].checkIn # Null
        /\ table[i].checkIn < yesterday }

\* where(and(isNull(checkOut), lt(checkIn, yesterday))): a NULL check-in
\* compares as unknown and is not selected.
UncompletedRecords(table, yesterday) ==
    { i \in DOMAIN table :
        /\ table[i].checkOut = Null
        /\ table[i].checkIn # Null
        /\ table[i].checkIn < yesterday }

\* The rows in the order the loop visits them, the first `done` of them
\* updated (done < number of rows: the next update threw and the catch
\* block ended the run).
ResetTable(table, yesterday, done) ==
    LET sel == UncompletedRecords(table, yesterday)
        upd == { i \in sel : Cardinality({ j \in sel : j < i }) < done }
    IN  [i \in DOMAIN table |->
            IF i \in upd /\ table[i].checkIn # Null
            THEN AutoCheckout(table[i], yesterday)
            ELSE table[i]]

handleMidnightReset ==
    LET yesterday == YesterdayEnd(now)
        sel == UncompletedRecords(attendance, yesterday)
    IN  \E done \in 0..Cardinality(sel) :
            /\ attendance' = ResetTable(attendance, yesterday, done)
            /\ lastReset' = [ran |-> TRUE, ok |-> done = Cardinality(sel),
                             at |-> now, yesterday |-> yesterday, selected |-> sel]
            /\ UNCHANGED now

\* The once-a-minute callback of the scheduler.
PerformScheduledTasks ==
    /\ IF isMidnight(now)
       THEN handleMidnightReset /\ WorkerCleared
       ELSE UNCHANGED << attVars, workerVars >>
    /\ UNCHANGED << authVars, reqVars, trkVars, svcVars >>

\* triggerMidnightReset(): the manual trigger.
TriggerMidnightReset ==
    /\ handleMidnightReset
    /\ WorkerCleared
    /\ UNCHANGED << authVars, reqVars, trkVars, svcVars >>

Tick ==
    /\ \E t \in Instants :
          /\ t > now
          /\ \A u \in Instants : u > now => t <= u
          /\ now' = t
    /\ UNCHANGED << attendance, lastReset, workerVars, authVars, reqVars, trkVars, svcVars >>

\* POST /api/attendance with a check-in body: the row is the body with
\* userId replaced by the requester's id.
CheckIn ==
    /\ Len(attendance) < MaxRecords
    /\ \E u \in AttUsers, bodyUser \in AttUsers :
          LET body == [userId |-> bodyUser, checkIn |-> now, checkOut |-> Null,
                       checkOutLocation |-> "", workingHours |-> 0,
                       overtimeHours |-> 0, status |-> "present"]
          IN  attendance' = Append(attendance, Spread(body, [userId |-> u]))
    /\ WorkerCleared
    /\ UNCHANGED << now, lastReset, authVars, reqVars, trkVars, svcVars >>

\* Check-out of an open row: the check-out time is stored together with the
\* working hours, check-out minus check-in.
CheckOut ==
    /\ \E i \in DOMAIN attendance :
          /\ attendance[i].checkOut = Null
          /\ attendance' =
                [attendance EXCEPT
                    ![i].checkOut = now,
                    ![i].checkOutLocation = "Office",
                    ![i].workingHours = calculateWorkHours(attendance[i].checkIn, now),
                    ![i].overtimeHours = calculateOvertime(attendance[i].checkIn, now),
                    ![i].status = "completed"]
    /\ WorkerCleared
    /\ UNCHANGED << now, lastReset, authVars, reqVars, trkVars, svcVars >>

\* The page hands the attendance rows to the worker.
WorkerProcessAttendance ==
    /\ wInput' = attendance
    /\ wOutput' = processAttendanceData(attendance)
    /\ wReplied' = TRUE
    /\ UNCHANGED << attVars, authVars, reqVars, trkVars, svcVars >>

(***************************************************************************)
(* Authentication (src/server/auth.ts, src/server/routes-broken.ts,        *)
(* session middleware of src/server/index.ts)                              *)
(***************************************************************************)

\* Strings that are split or concatenated are sequences of characters.
Undefined == << "<undefined>" >>

NoUser == 0

\* bcrypt.hash(password, 10): a salted hash; bcrypt.compare(supplied, stored)
\* recomputes it from the supplied password and the stored salt.
BcryptHash(password, salt) == [pw |-> password, salt |-> salt]

comparePasswords(supplied, stored) == stored.pw = supplied

UserRow(username, password, role, isActive) ==
    [username |-> username, password |-> BcryptHash(password, 10),
     role |-> role, isActive |-> isActive]

\* The users table: an admin, an employee whose password holds a ':', and
\* an hr user; the employee and the hr user may be deactivated.
UserTables ==
    { << UserRow(<< "a" >>, << "x" >>, "admin", TRUE),
         UserRow(<< "e" >>, << "y", ":", "z" >>, "employee", a2),
         UserRow(<< "h" >>, << "x" >>, "hr", a3) >> : a2, a3 \in BOOLEAN }

Usernames == { << "a" >>, << "e" >>, << "h" >>, << "n" >> }
Passwords == { << "x" >>, << "y", ":", "z" >>, Undefined }

\* storage.getUser(id): the row with that id, or undefined.
getUser(table, id) == IF id \in DOMAIN table THEN id ELSE NoUser

\* storage.getUserByUsername(username): the first row with that username.
getUserByUsername(table, username) ==
    IF \E i \in DOMAIN table : table[i].username = username
    THEN CHOOSE i \in DOMAIN table :
            /\ table[i].username = username
            /\ \A j \in DOMAIN table : table[j].username = username => i <= j
    ELSE NoUser

AuthUser(id) == [kind |-> "user", id |-> id]
AuthNull == [kind |-> "null", id |-> NoUser]
AuthThrow == [kind |-> "throw", id |-> NoUser]

authenticateUser_NoActiveCheck(table, username, password, dbFails) ==
    IF dbFails THEN AuthThrow
    ELSE LET user == getUserByUsername(table, username)
         IN  IF user = NoUser THEN AuthNull
             ELSE IF password = Undefined THEN AuthThrow
             ELSE IF ~comparePasswords(password, table[user].password) THEN AuthNull
             ELSE AuthUser(user)

\* authenticateUser: the result, or the error it re-throws (a failing
\* storage lookup, or bcrypt.compare called without a password).
authenticateUser(table, username, password, dbFails) ==
    IF dbFails THEN AuthThrow
    ELSE LET user == getUserByUsername(table, username)
         IN  IF user = NoUser THEN AuthNull
             ELSE IF ~table[user].isActive THEN AuthNull
             ELSE IF password = Undefined THEN AuthThrow
             ELSE IF ~comparePasswords(password, table[user].password) THEN AuthNull
             ELSE AuthUser(user)

AuthCall(table, username, password, dbFails) ==
    [called |-> TRUE, username |-> username, password |-> password,
     dbFails |-> dbFails, usersBefore |-> table,
     result |-> authenticateUser(table, username, password, dbFails)]

NoAuthCall ==
    [called |-> FALSE, username |-> << >>, password |-> << >>,
     dbFails |-> FALSE, usersBefore |-> << >>, result |-> AuthNull]

\* Buffer.from(`${username}:${password}`).toString('base64'): the token is
\* kept as the text it encodes.
Token(username, password) == username \o << ":" >> \o password

\* Position of the first ':' of s at or after from, 0 when there is none.
IndexOfColon(s, from) ==
    IF \E i \in from..Len(s) : s[i] = ":"
    THEN CHOOSE i \in from..Len(s) :
            s[i] = ":" /\ \A j \in from..Len(s) : s[j] = ":" => i <= j
    ELSE 0

\* const [username, password] = decoded.split(':')
SplitUsername(s) ==
    LET i == IndexOfColon(s, 1)
    IN  IF i = 0 THEN s ELSE SubSeq(s, 1, i - 1)

SplitPassword(s) ==
    LET i == IndexOfColon(s, 1)
    IN  IF i = 0 THEN Undefined
        ELSE LET j == IndexOfColon(s, i + 1)
             IN  IF j = 0 THEN SubSeq(s, i + 1, Len(s))
                 ELSE SubSeq(s, i + 1, j - 1)

NoCookie == "none"
NoHeader == [scheme |-> "none", token |-> << >>]
Bearer(token) == [scheme |-> "Bearer", token |-> token]

\* express-session: the session of a request is the stored one when the
\* cookie names it, and a fresh empty one otherwise.
SessionUserId(store, cookie) ==
    IF cookie \in DOMAIN store THEN store[cookie].userId ELSE NoUser

\* saveUninitialized: false, rolling: true: a stored session has its cookie
\* re-issued with every response; a fresh session the handler never wrote to
\* is not saved and no cookie is set.
ResponseCookie(store, cookie, sessionWritten) ==
    IF cookie \in DOMAIN store THEN cookie
    ELSE IF sessionWritten THEN "s2"
    ELSE NoCookie

authMiddleware_TokenFirst(table, store, cookie, header, sessFails, authFails) ==
    LET sid == SessionUserId(store, cookie)
        viaSession ==
            IF sid # NoUser /\ ~sessFails THEN getUser(table, sid) ELSE NoUser
        decoded == header.token
        call == AuthCall(table, SplitUsername(decoded), SplitPassword(decoded),
                         authFails)
    IN  IF header.scheme = "Bearer" /\ call.result.kind = "user"
        THEN [user |-> call.result.id, nextCalls |-> 1, responses |-> 0,
              auth |-> call]
        ELSE [user |-> viaSession, nextCalls |-> 1, responses |-> 0,
              auth |-> IF header.scheme = "Bearer" THEN call ELSE NoAuthCall]

\* authMiddleware: the user attached to req, the calls of next and of
\* res it made, and the authenticateUser call it made, if any.
authMiddleware(table, store, cookie, header, sessFails, authFails) ==
    LET sid == SessionUserId(store, cookie)
        viaSession ==
            IF sid # NoUser /\ ~sessFails THEN getUser(table, sid) ELSE NoUser
        decoded == header.token
        call == AuthCall(table, SplitUsername(decoded), SplitPassword(decoded),
                         authFails)
    IN  IF viaSession # NoUser
        THEN [user |-> viaSession, nextCalls |-> 1, responses |-> 0,
              auth |-> NoAuthCall]
        ELSE IF header.scheme = "Bearer"
        THEN [user |-> IF call.result.kind = "user" THEN call.result.id ELSE NoUser,
              nextCalls |-> 1, responses |-> 0, auth |-> call]
        ELSE [user |-> NoUser, nextCalls |-> 1, responses |-> 0,
              auth |-> NoAuthCall]

Pass == [next |-> TRUE, status |-> 200, error |-> ""]

requireAuth(table, reqUser) ==
    IF reqUser = NoUser
    THEN [next |-> FALSE, status |-> 401, error |-> "Authentication required"]
    ELSE Pass

requireRole_AnyUser(table, roles, reqUser) ==
    IF reqUser = NoUser
    THEN [next |-> FALSE, status |-> 403, error |-> "Insufficient permissions"]
    ELSE Pass

requireRole(table, roles, reqUser) ==
    IF reqUser = NoUser \/ table[reqUser].role \notin roles
    THEN [next |-> FALSE, status |-> 403, error |-> "Insufficient permissions"]
    ELSE Pass

\* The guards of a route, run in order until one answers instead of
\* calling next.
RunGuards(table, guards, reqUser) ==
    LET step(g) == IF g.kind = "requireAuth"
                   THEN requireAuth(table, reqUser)
                   ELSE requireRole(table, g.roles, reqUser)
        stopped == { i \in DOMAIN guards : ~step(guards[i]).next }
    IN  IF stopped = {} THEN [handler |-> TRUE, by |-> "", res |-> Pass]
        ELSE LET i == CHOOSE k \in stopped : \A j \in stopped : k <= j
             IN  [handler |-> FALSE, by |-> guards[i].kind, res |-> step(guards[i])]

GuardAuth == [kind |-> "requireAuth", roles |-> {}]
GuardRole(roles) == [kind |-> "requireRole", roles |-> roles]

\* GET /api/user; POST /api/announcements; requireRole mounted on its own.
Routes ==
    { << GuardAuth >>,
      << GuardAuth, GuardRole({"admin", "hr"}) >>,
      << GuardRole({"admin"}) >> }

SessionStores ==
    { << >> } \cup { [sid \in {"s1"} |-> [userId |-> u]] : u \in {1, 3} }

Headers ==
    { NoHeader, [scheme |-> "Basic", token |-> Token(<< "a" >>, << "x" >>)] }
    \cup { Bearer(Token(u, p)) : u \in {<< "a" >>, << "h" >>}, p \in {<< "x" >>} }
    \cup { Bearer(Token(<< "e" >>, << "y", ":", "z" >>)), Bearer(<< "a" >>) }

NoLogin == [done |-> FALSE, status |-> 0, user |-> NoUser,
            username |-> << >>, password |-> << >>, setCookie |-> NoCookie]
NoReq == [done |-> FALSE, afterLogin |-> FALSE, cookie |-> NoCookie,
          header |-> NoHeader, guards |-> << >>, reqUser |-> NoUser,
          nextCalls |-> 0, handler |-> FALSE, by |-> "", status |-> 0,
          error |-> "", dbError |-> FALSE, sessError |-> FALSE,
          mwResponses |-> 0, auth |-> NoAuthCall]

\* POST /api/login, reached through the session middleware and
\* authMiddleware.  The handler never writes to req.session.
Login ==
    \E username \in Usernames, password \in Passwords, dbFails \in BOOLEAN :
        \* a failing lookup fails the same way for every input
        /\ dbFails => (username = << "a" >> /\ password = << "x" >>)
        /\ LET call == AuthCall(users, username, password, dbFails)
               cookie == ResponseCookie(sessionStore, cookieJar, FALSE)
           IN
            /\ lastAuth' = call
            /\ lastLogin' =
                 [done |-> TRUE,
                  status |-> IF call.result.kind = "throw" THEN 500
                             ELSE IF call.result.kind = "null" THEN 401
                             ELSE 200,
                  user |-> call.result.id,
                  username |-> username,
                  password |-> password,
                  setCookie |-> cookie]
            /\ cookieJar' = IF cookie # NoCookie THEN cookie ELSE cookieJar
            /\ lastReq' = NoReq
            /\ UNCHANGED << users, sessionStore, workerVars, attVars, reqVars, trkVars, svcVars >>

\* A request to a guarded route: session middleware, authMiddleware, the
\* route's guards, the handler.
Request ==
    \E guards \in Routes, header \in Headers,
       sessFails \in BOOLEAN, authFails \in BOOLEAN :
        /\ ~(sessFails /\ authFails)
        \* only a lookup that is made can fail
        /\ sessFails => SessionUserId(sessionStore, cookieJar) # NoUser
        /\ authFails => header.scheme = "Bearer"
        /\ LET cookie == cookieJar
               mw == authMiddleware(users, sessionStore, cookie, header,
                                    sessFails, authFails)
               g == RunGuards(users, guards, mw.user)
           IN
            /\ lastReq' =
                 [done |-> TRUE,
                  afterLogin |-> lastLogin.done /\ lastLogin.status = 200,
                  cookie |-> cookie, header |-> header, guards |-> guards,
                  reqUser |-> mw.user, nextCalls |-> mw.nextCalls,
                  handler |-> g.handler, by |-> g.by,
                  status |-> g.res.status, error |-> g.res.error,
                  dbError |-> sessFails \/ authFails,
                  sessError |-> sessFails,
                  mwResponses |-> mw.responses, auth |-> mw.auth]
            /\ lastAuth' = mw.auth
            /\ UNCHANGED << users, sessionStore, cookieJar, lastLogin,
                            workerVars, attVars, reqVars, trkVars, svcVars >>

(***************************************************************************)
(* Leave and overtime requests: creation and the hourly cleanup            *)
(* (src/server/routes-broken.ts, src/server/storage.ts,                    *)
(*  src/unnamed/part_013)                                                  *)
(***************************************************************************)

\* if (userRequests.length > 5) ... userRequests.slice(5)
KeepCount == 5

\* .limit(1000) // Safety limit
SafetyLimit == 1000

ReqUsers == {1, 2}

MaxCreates == 2
MaxTicks == 1

\* The smallest per-user row count the safety limit does not cover.
BacklogSize == SafetyLimit + 1

ReqEpoch == BacklogSize + 1

\* Request bodies: a plain one, one that carries a status and a userId of
\* its own, and one that fails validation (no leave type).
LeaveBodies ==
    { [type |-> "sick"],
      [type |-> "sick", status |-> "approved", userId |-> 2],
      [reason |-> "x"] }

ParseError == [error |-> "ZodError"]

\* insertLeaveRequestSchema.parse: a body without the required fields is
\* rejected; id, status and submittedAt are not insertable and are
\* stripped.
insertLeaveRequestSchema_parse(obj) ==
    IF "type" \notin DOMAIN obj THEN ParseError
    ELSE [k \in (DOMAIN obj) \cap {"userId", "type"} |-> obj[k]]

\* Column defaults of a request row: serial id, status 'pending',
\* timestamp now().
RequestDefaults(id, t) == [id |-> id, status |-> "pending", ts |-> t]

LeaveData_BodyWins(body, reqUser) == Spread([userId |-> reqUser], body)

\* { ...req.body, userId: req.user.id }
LeaveData(body, reqUser) == Spread(body, [userId |-> reqUser])

\* db.insert(table).values(data).returning(): the stored row.
createLeaveRequest(data, id, t) == Spread(RequestDefaults(id, t), data)

createOvertimeRequest(data, id, t) == Spread(RequestDefaults(id, t), data)

NoCreate == [done |-> FALSE, stored |-> FALSE, requester |-> 0,
             body |-> [type |-> "sick"], row |-> RequestDefaults(0, 0)]

NoCleanup == [done |-> FALSE, leaveOk |-> FALSE, overtimeOk |-> FALSE,
              leaveBefore |-> << >>, overtimeBefore |-> << >>]

\* POST /api/leave-requests by an authenticated user.
PostLeaveRequest ==
    \E requester \in ReqUsers, body \in LeaveBodies :
        LET leaveData ==
                insertLeaveRequestSchema_parse(LeaveData(body, requester))
            row == createLeaveRequest(leaveData, nextId.leave, reqNow)
        IN  /\ created < MaxCreates
            /\ IF leaveData = ParseError
               THEN /\ lastCreate' = [done |-> TRUE, stored |-> FALSE,
                                      requester |-> requester, body |-> body,
                                      row |-> RequestDefaults(0, 0)]
                    /\ UNCHANGED << leaveRequests, nextId, created,
                                    lastCleanup >>
               ELSE /\ leaveRequests' = Append(leaveRequests, row)
                    /\ nextId' = [nextId EXCEPT !.leave = @ + 1]
                    /\ created' = created + 1
                    /\ lastCreate' = [done |-> TRUE, stored |-> TRUE,
                                      requester |-> requester, body |-> body,
                                      row |-> row]
                    /\ lastCleanup' = NoCleanup
            /\ UNCHANGED << overtimeRequests, reqNow, workerVars, attVars, authVars,
                        trkVars, svcVars >>

\* storage.createOvertimeRequest for some user.
CreateOvertime ==
    \E requester \in ReqUsers :
        /\ created < MaxCreates
        /\ overtimeRequests' =
               Append(overtimeRequests,
                      createOvertimeRequest([userId |-> requester],
                                            nextId.overtime, reqNow))
        /\ nextId' = [nextId EXCEPT !.overtime = @ + 1]
        /\ created' = created + 1
        /\ lastCleanup' = NoCleanup
        /\ UNCHANGED << leaveRequests, reqNow, lastCreate, workerVars,
                        attVars, authVars,
                        trkVars, svcVars >>

\* Time passes between requests.
ReqTick ==
    /\ reqNow < ReqEpoch + MaxTicks
    /\ reqNow' = reqNow + 1
    /\ UNCHANGED << leaveRequests, overtimeRequests, nextId, created,
                    lastCreate, lastCleanup, workerVars, attVars, authVars,
                        trkVars, svcVars >>

\* selectDistinct({ userId }).from(table)
usersWithRequests(table) == { table[i].userId : i \in DOMAIN table }

\* .where(eq(table.userId, userId)), in insertion order, which is also
\* the order of the timestamps.
RowsOfUser(table, userId) == SelectSeq(table, LAMBDA r : r.userId = userId)

SubsetsOfSize(S, k) == { X \in SUBSET S : Cardinality(X) = k }

\* .orderBy(desc(ts)).limit(k): the positions of k newest rows of rows;
\* rows that tie on the timestamp at the cut are taken in any order.
NewestIdx(rows, k) ==
    LET n == Len(rows)
    IN  IF n <= k THEN { 1..n }
        ELSE LET t == rows[n - k + 1].ts
                 newer == { i \in (n - k + 1)..n : rows[i].ts > t }
                 ties == { i \in 1..n : rows[i].ts = t }
             IN  { newer \cup X :
                     X \in SubsetsOfSize(ties, k - Cardinality(newer)) }

idsToDelete_NoSlice(rows) ==
    { { rows[i].id : i \in sel } : sel \in NewestIdx(rows, SafetyLimit) }

\* userRequests = the newest SafetyLimit rows, newest first;
\* idsToDelete = userRequests.slice(KeepCount) if there are more than
\* KeepCount of them.  The result is the set of id sets the query order
\* allows.
idsToDelete(rows) ==
    UNION { { { rows[i].id : i \in sel \ kept } :
                kept \in { k \in NewestIdx(rows, KeepCount) :
                              k \subseteq sel } } :
            sel \in NewestIdx(rows, SafetyLimit) }

\* db.delete(table).where(inArray(table.id, ids))
DeleteIds(table, ids) == SelectSeq(table, LAMBDA r : r.id \notin ids)

\* One id set to delete for every user in P.
DeletionPlans(table, P) ==
    LET choices == [u \in P |-> idsToDelete(RowsOfUser(table, u))]
    IN  { f \in [P -> UNION { choices[u] : u \in P }] :
            \A u \in P : f[u] \in choices[u] }

\* cleanupOldUserRequests(type): every table and result the call can end
\* with.  A database error ends the loop early: the users reached before
\* it are cleaned, the error is logged, and the call returns 0.
cleanupOldUserRequests(table) ==
    LET Us == usersWithRequests(table)
    IN  UNION { { [table |-> DeleteIds(table, UNION { f[u] : u \in P }),
                   ok |-> P = Us] :
                    f \in DeletionPlans(table, P) } : P \in SUBSET Us }

\* performCleanup, hourly and at start: both request types in turn.
PerformCleanup ==
    \E l \in cleanupOldUserRequests(leaveRequests),
       o \in cleanupOldUserRequests(overtimeRequests) :
        /\ leaveRequests' = l.table
        /\ overtimeRequests' = o.table
        /\ lastCleanup' = [done |-> TRUE, leaveOk |-> l.ok,
                           overtimeOk |-> o.ok,
                           leaveBefore |-> leaveRequests,
                           overtimeBefore |-> overtimeRequests]
        /\ lastCreate' = NoCreate
        /\ UNCHANGED << nextId, reqNow, created, workerVars, attVars, authVars,
                        trkVars, svcVars >>

\* Tables the service can find at start: per user, a number of requests
\* submitted one after the other (pairwise at the same instant if
\* paired).
BacklogRows(userId, count, firstId, paired) ==
    [k \in 1..count |->
        [id |-> firstId + k - 1, status |-> "pending",
         ts |-> IF paired THEN (k + 1) \div 2 ELSE k,
         userId |-> userId, type |-> "sick"]]

BacklogTable(c1, c2, paired) ==
    BacklogRows(1, c1, 1, paired) \o BacklogRows(2, c2, c1 + 1, paired)

\* Backlogs of leave requests: << rows of user 1, rows of user 2, paired >>.
LeaveBacklogs ==
    { << 0, 0, FALSE >>,
      << KeepCount, 0, FALSE >>,
      << KeepCount + 1, KeepCount + 1, FALSE >>,
      << KeepCount + 1, 0, TRUE >>,
      << KeepCount + 2, KeepCount, FALSE >>,
      << BacklogSize, 0, FALSE >> }

\* Backlogs of overtime requests, all of user 1.
OvertimeBacklogs == { 0, KeepCount + 1 }

(***************************************************************************)
(* Project time trackers: ProjectTimeTracker (src/unnamed/part_004) and    *)
(* EnhancedTimeTracker                                                     *)
(* (src/client/src/components/projects/enhanced-time-tracker.tsx)          *)
(***************************************************************************)

\* useState<number>(8), setTotalWorkHours(8): 8 hours, in hundredths
DefaultWorkHours == 800

MaxProjects == 2

Projects == 1..MaxProjects

\* The attendance query has no data (loading, or no record for the date).
NoRecord == [found |-> FALSE, hours |-> 0]

\* Hours of the records the query can return (totalHours / workingHours).
RecordHours == { Null, 400, DefaultWorkHours }

AttendanceRecords ==
    { NoRecord } \cup { [found |-> TRUE, hours |-> h] : h \in RecordHours }

\* parseFloat(e.target.value) || 0
HourInputs == { -100, 0, 400, DefaultWorkHours }

\* e.target.value of the description field
DescriptionInputs == { << >>, << " " >>, << "w" >> }

RECURSIVE trim(_)
\* String.prototype.trim
trim(str) ==
    IF str = << >> THEN str
    ELSE IF Head(str) = " " THEN trim(Tail(str))
    ELSE IF str[Len(str)] = " " THEN trim(SubSeq(str, 1, Len(str) - 1))
    ELSE str

RECURSIVE totalAllocated(_)
\* timeAllocations.reduce((sum, alloc) => sum + alloc.hours, 0)
totalAllocated(allocations) ==
    IF allocations = << >> THEN 0
    ELSE allocations[1].hours + totalAllocated(Tail(allocations))

\* value || fallback, for the hours of the attendance record
Falsy(hours) == hours = Null \/ hours = 0

\* attendanceRecord?.totalHours || 0
availableHours(record) ==
    IF ~record.found \/ Falsy(record.hours) THEN 0 ELSE record.hours

\* The effect on attendanceRecord: workingHours, or the default 8 hours.
totalWorkHoursOf(record) ==
    IF record.found /\ ~Falsy(record.hours) THEN record.hours
    ELSE DefaultWorkHours

SomeHoursNotPositive(allocations) ==
    \E i \in DOMAIN allocations : allocations[i].hours <= 0

SomeDescriptionBlank(allocations) ==
    \E i \in DOMAIN allocations : trim(allocations[i].description) = << >>

\* ProjectTimeTracker.saveAllocations: the toast it shows, or "mutate".
saveAllocationsBasic(allocations, record) ==
    IF totalAllocated(allocations) > availableHours(record) THEN "exceed"
    ELSE IF SomeHoursNotPositive(allocations) THEN "hours"
    ELSE "mutate"

saveAllocationsEnhanced_NoHoursCheck(allocations, total) ==
    IF totalAllocated(allocations) > total THEN "exceed"
    ELSE IF SomeDescriptionBlank(allocations) THEN "description"
    ELSE "mutate"

\* EnhancedTimeTracker.saveAllocations: the toast it shows, or "mutate".
saveAllocationsEnhanced(allocations, total) ==
    IF totalAllocated(allocations) > total THEN "exceed"
    ELSE IF SomeHoursNotPositive(allocations) THEN "hours"
    ELSE IF SomeDescriptionBlank(allocations) THEN "description"
    ELSE "mutate"

NoMutation == [pending |-> FALSE, payload |-> << >>]

NoSave == [called |-> FALSE, outcome |-> "", before |-> << >>,
           editingBefore |-> FALSE, mutationBefore |-> NoMutation]

\* Everything but the outcome of the last save stays as it is.
TrkOthersUnchanged ==
    UNCHANGED << workerVars, attVars, authVars, reqVars, svcVars >>

\* The Save button: enabled while no save is pending (and, in the enhanced
\* tracker, while the list is not empty); the basic tracker renders the
\* card only if there is an attendance record.
SaveEnabled ==
    /\ isEditing
    /\ ~mutation.pending
    /\ tracker = "basic" => attendanceRecord.found
    /\ tracker = "enhanced" => timeAllocations # << >>

SaveAllocations ==
    /\ SaveEnabled
    /\ LET outcome ==
               IF tracker = "basic"
               THEN saveAllocationsBasic(timeAllocations, attendanceRecord)
               ELSE saveAllocationsEnhanced(timeAllocations, totalWorkHours)
       IN  /\ mutation' = IF outcome = "mutate"
                          THEN [pending |-> TRUE, payload |-> timeAllocations]
                          ELSE mutation
           /\ lastSave' = [called |-> TRUE, outcome |-> outcome,
                           before |-> timeAllocations,
                           editingBefore |-> isEditing,
                           mutationBefore |-> mutation]
    /\ UNCHANGED << tracker, attendanceRecord, totalWorkHours,
                    existingTimeEntries, timeAllocations, isEditing >>
    /\ TrkOthersUnchanged

\* onSuccess: the entries query is refetched and the list follows it;
\* setIsEditing(false).
MutationSuccess ==
    /\ mutation.pending
    /\ existingTimeEntries' = mutation.payload
    /\ timeAllocations' = mutation.payload
    /\ isEditing' = FALSE
    /\ mutation' = NoMutation
    /\ lastSave' = NoSave
    /\ UNCHANGED << tracker, attendanceRecord, totalWorkHours >>
    /\ TrkOthersUnchanged

\* onError: a toast, nothing else.
MutationError ==
    /\ mutation.pending
    /\ mutation' = NoMutation
    /\ lastSave' = NoSave
    /\ UNCHANGED << tracker, attendanceRecord, totalWorkHours,
                    existingTimeEntries, timeAllocations, isEditing >>
    /\ TrkOthersUnchanged

\* The first project that has no allocation yet.
FirstAvailable(allocations) ==
    LET taken == { allocations[i].projectId : i \in DOMAIN allocations }
        free == Projects \ taken
    IN  CHOOSE pr \in free : \A q \in free : pr <= q

AddProjectAllocation ==
    /\ isEditing
    /\ \E pr \in Projects :
           \A i \in DOMAIN timeAllocations : timeAllocations[i].projectId # pr
    /\ timeAllocations' =
           Append(timeAllocations,
                  [projectId |-> FirstAvailable(timeAllocations),
                   hours |-> 0, description |-> << >>])
    /\ lastSave' = NoSave
    /\ UNCHANGED << tracker, attendanceRecord, totalWorkHours,
                    existingTimeEntries, isEditing, mutation >>
    /\ TrkOthersUnchanged

\* updated[index] = { ...updated[index], [field]: value }
updateAllocation(allocations, index, field, value) ==
    [allocations EXCEPT ![index] = Spread(@, field :> value)]

UpdateHours ==
    \E index \in DOMAIN timeAllocations, value \in HourInputs :
        /\ isEditing
        /\ timeAllocations' =
               updateAllocation(timeAllocations, index, "hours", value)
        /\ lastSave' = NoSave
        /\ UNCHANGED << tracker, attendanceRecord, totalWorkHours,
                        existingTimeEntries, isEditing, mutation >>
        /\ TrkOthersUnchanged

UpdateDescription ==
    \E index \in DOMAIN timeAllocations, value \in DescriptionInputs :
        /\ isEditing
        /\ timeAllocations' =
               updateAllocation(timeAllocations, index, "description", value)
        /\ lastSave' = NoSave
        /\ UNCHANGED << tracker, attendanceRecord, totalWorkHours,
                        existingTimeEntries, isEditing, mutation >>
        /\ TrkOthersUnchanged

\* timeAllocations.filter((_, i) => i !== index)
removeAllocation(allocations, index) ==
    SubSeq(allocations, 1, index - 1)
        \o SubSeq(allocations, index + 1, Len(allocations))

RemoveAllocation ==
    \E index \in DOMAIN timeAllocations :
        /\ isEditing
        /\ timeAllocations' = removeAllocation(timeAllocations, index)
        /\ lastSave' = NoSave
        /\ UNCHANGED << tracker, attendanceRecord, totalWorkHours,
                        existingTimeEntries, isEditing, mutation >>
        /\ TrkOthersUnchanged

\* parseFloat((totalWorkHours / n).toFixed(1)), in hundredths of an hour
hoursPerProject(total, n) == 10 * ((2 * total + 10 * n) \div (20 * n))

AutoDistributeHours ==
    /\ tracker = "enhanced"
    /\ isEditing
    /\ timeAllocations # << >>
    /\ timeAllocations' =
           [i \in DOMAIN timeAllocations |->
               Spread(timeAllocations[i],
                      [hours |-> hoursPerProject(totalWorkHours,
                                                 Len(timeAllocations))])]
    /\ lastSave' = NoSave
    /\ UNCHANGED << tracker, attendanceRecord, totalWorkHours,
                    existingTimeEntries, isEditing, mutation >>
    /\ TrkOthersUnchanged

\* The Edit / Start Tracking button.
StartEditing ==
    /\ ~isEditing
    /\ tracker = "basic" => attendanceRecord.found
    /\ isEditing' = TRUE
    /\ lastSave' = NoSave
    /\ UNCHANGED << tracker, attendanceRecord, totalWorkHours,
                    existingTimeEntries, timeAllocations, mutation >>
    /\ TrkOthersUnchanged

\* The Cancel button: back to the existing entries, if there are any.
CancelEditing ==
    /\ isEditing
    /\ isEditing' = FALSE
    /\ timeAllocations' = IF existingTimeEntries # << >>
                          THEN existingTimeEntries
                          ELSE timeAllocations
    /\ lastSave' = NoSave
    /\ UNCHANGED << tracker, attendanceRecord, totalWorkHours,
                    existingTimeEntries, mutation >>
    /\ TrkOthersUnchanged

\* Another date is selected: the queries of that date answer, the effects
\* set the list from its (here: no) entries and the total work hours from
\* its attendance record; the calendar also leaves editing mode.
SelectDate ==
    \E record \in AttendanceRecords, calendar \in BOOLEAN :
        /\ ~mutation.pending
        /\ attendanceRecord' = record
        /\ totalWorkHours' = IF tracker = "enhanced"
                             THEN totalWorkHoursOf(record)
                             ELSE totalWorkHours
        /\ existingTimeEntries' = << >>
        /\ timeAllocations' = << >>
        /\ isEditing' = (isEditing /\ ~calendar)
        /\ lastSave' = NoSave
        /\ UNCHANGED << tracker, mutation >>
        /\ TrkOthersUnchanged

(***************************************************************************)
(* The scheduler's interval timer (src/server/attendance-scheduler.ts)     *)
(***************************************************************************)

\* setInterval(..., 60 * 1000)
TickPeriod == 60 * 1000

\* By how many milliseconds the event loop runs a due timer late.
MaxDelay == 2

Delays == 0..MaxDelay

\* The local midnight under observation.
Midnight == 2 * MsPerDay

\* Instants at which start() is called, in the third minute before
\* midnight.
StartInstants ==
    { Midnight - 3 * TickPeriod + offset :
        offset \in { 0, 1, 30000, TickPeriod - 2, TickPeriod - 1 } }

\* The clock stops being observed two minutes after midnight.
Horizon == Midnight + 2 * TickPeriod

\* An attendance row left open on the day before the midnight.
OpenRow ==
    [userId |-> 1, checkIn |-> MsPerDay + 9 * MsPerHour, checkOut |-> Null,
     checkOutLocation |-> "", workingHours |-> 0, overtimeHours |-> 0,
     status |-> "present"]

\* The timer becomes due and the event loop gets to it, on time or late.
TimerDue ==
    \E delay \in Delays :
        /\ ~ticking
        /\ nextTick <= Horizon
        /\ now' = nextTick + delay
        /\ ticking' = TRUE
        /\ UNCHANGED << attendance, lastReset, nextTick, resetCount,
                        workerVars, authVars, reqVars, trkVars, userVars, wsVars, timerVars,
                        procVars >>

\* The interval callback: performScheduledTasks(); the timer is re-armed
\* one period after the callback started.
SchedulerTick ==
    /\ ticking
    /\ IF isMidnight(now)
       THEN /\ handleMidnightReset
            /\ WorkerCleared
            /\ resetCount' = resetCount + 1
       ELSE UNCHANGED << attVars, workerVars, resetCount >>
    /\ nextTick' = now + TickPeriod
    /\ ticking' = FALSE
    /\ UNCHANGED << authVars, reqVars, trkVars, userVars, wsVars, timerVars, procVars >>

(***************************************************************************)
(* Background services and their timers                                    *)
(* (src/server/attendance-scheduler.ts, src/server/session-cleanup-        *)
(*  service.ts, src/unnamed/part_012, src/unnamed/part_013)                *)
(***************************************************************************)

\* Timers armed in one run.
MaxTimers == 4

\* null in a timer field
NoTimer == 0

\* The fields in which the services keep timer ids.
Slots ==
    { "attendance.intervalId", "cleanup.cleanupInterval",
      "messaging.interval", "session.cleanupInterval",
      "session.immediateCleanupInterval" }

NoHandles == [slot \in Slots |-> NoTimer]

\* The timers, the fields and the id counter, as one value the start and
\* stop methods transform.
TimerState == [timers |-> timers, handle |-> handle, seq |-> timerSeq]

\* setInterval / setTimeout: a new timer of service svc that will begin
\* job, kept in slot unless slot is "".
Arm(st, svc, job, repeat, slot) ==
    [timers |-> st.timers \cup
                  { [id |-> st.seq, svc |-> svc, job |-> job,
                     repeat |-> repeat] },
     handle |-> IF slot = "" THEN st.handle
                ELSE [st.handle EXCEPT ![slot] = st.seq],
     seq |-> st.seq + 1]

\* if (this[slot]) { clearInterval(this[slot]); this[slot] = null; }
Clear(st, slot) ==
    [timers |-> { t \in st.timers : t.id # st.handle[slot] },
     handle |-> [st.handle EXCEPT ![slot] = NoTimer],
     seq |-> st.seq]

\* AttendanceScheduler.start
startAttendance(st) ==
    Arm(st, "attendance", "performScheduledTasks", TRUE,
        "attendance.intervalId")

\* AttendanceScheduler.stop
stopAttendance(st) == Clear(st, "attendance.intervalId")

\* SessionCleanupService.start of session-cleanup-service.ts: a 30 s
\* timeout for the initial cleanup, then the hourly interval.
startSessionTs(st) ==
    IF st.handle["session.cleanupInterval"] # NoTimer THEN st
    ELSE Arm(Arm(st, "session", "performCleanup", FALSE, ""),
             "session", "performCleanup", TRUE, "session.cleanupInterval")

\* SessionCleanupService.stop of session-cleanup-service.ts
stopSessionTs(st) == Clear(st, "session.cleanupInterval")

\* SessionCleanupService.start of part_012: the initial cleanup runs inside
\* start; a one-minute and an hourly interval are armed.
startSession012(st) ==
    IF st.handle["session.cleanupInterval"] # NoTimer THEN st
    ELSE Arm(Arm(st, "session", "performImmediateCleanup", TRUE,
                 "session.immediateCleanupInterval"),
             "session", "performCleanup", TRUE, "session.cleanupInterval")

\* SessionCleanupService.stop of part_012
stopSession012(st) ==
    Clear(Clear(st, "session.cleanupInterval"),
          "session.immediateCleanupInterval")

\* CleanupService.start: the hourly interval; the initial cleanup runs
\* inside start.
startCleanup(st) ==
    Arm(st, "cleanup", "performCleanup", TRUE, "cleanup.cleanupInterval")

\* CleanupService.stop
stopCleanup(st) == Clear(st, "cleanup.cleanupInterval")

\* messagingCleanupService.start / stop: one interval timer.
startMessaging(st) ==
    IF st.handle["messaging.interval"] # NoTimer THEN st
    ELSE Arm(st, "messaging", "cleanup", TRUE, "messaging.interval")

stopMessaging(st) == Clear(st, "messaging.interval")

startOf(svc, build, st) ==
    CASE svc = "attendance" -> startAttendance(st)
      [] svc = "cleanup" -> startCleanup(st)
      [] svc = "messaging" -> startMessaging(st)
      [] svc = "session" ->
            IF build = "ts" THEN startSessionTs(st) ELSE startSession012(st)

stopOf(svc, build, st) ==
    CASE svc = "attendance" -> stopAttendance(st)
      [] svc = "cleanup" -> stopCleanup(st)
      [] svc = "messaging" -> stopMessaging(st)
      [] svc = "session" ->
            IF build = "ts" THEN stopSessionTs(st) ELSE stopSession012(st)

\* The services the start/stop claims are about.
StartStopServices == { "attendance", "session" }

\* service.start() is called and returns.
StartService ==
    \E svc \in StartStopServices :
        LET st == startOf(svc, sessionBuild, TimerState)
        IN  /\ st.seq <= MaxTimers + 1
            /\ timers' = st.timers
            /\ handle' = st.handle
            /\ timerSeq' = st.seq
            /\ stoppedSvcs' = stoppedSvcs \ { svc }
            /\ UNCHANGED << sessionBuild, lateJobs, tickVars, workerVars,
                            attVars, authVars, reqVars, trkVars, userVars, wsVars, procVars >>

\* service.stop() is called and returns.
StopService ==
    \E svc \in StartStopServices :
        LET st == stopOf(svc, sessionBuild, TimerState)
        IN  /\ timers' = st.timers
            /\ handle' = st.handle
            /\ timerSeq' = st.seq
            /\ stoppedSvcs' = stoppedSvcs \cup { svc }
            /\ UNCHANGED << sessionBuild, lateJobs, tickVars, workerVars,
                            attVars, authVars, reqVars, trkVars, userVars, wsVars, procVars >>

\* A timer fires and its job begins; a timeout is gone afterwards.
TimerFires ==
    \E t \in timers :
        /\ timers' = IF t.repeat THEN timers ELSE timers \ { t }
        /\ lateJobs' = IF t.svc \in stoppedSvcs THEN lateJobs \cup { t.svc }
                       ELSE lateJobs
        /\ UNCHANGED << handle, timerSeq, sessionBuild, stoppedSvcs, tickVars,
                        workerVars, attVars, authVars, reqVars, trkVars, userVars, wsVars, procVars >>

(***************************************************************************)
(* The server process: startServer and the shutdown handler                *)
(* (src/server/index.ts, src/unnamed/part_014)                             *)
(***************************************************************************)

StartupOrder_ListenEarly ==
    << "setupDatabase", "listen", "validateAuthenticationSystem",
       "registerRoutes", "startServices", "serveStatic" >>

\* The steps of startServer, in the order of the code.
StartupOrder ==
    << "setupDatabase", "validateAuthenticationSystem", "registerRoutes",
       "startServices", "serveStatic", "listen" >>

\* The services startServer starts, in order.
ServicesStarted(build) ==
    IF build = "index.ts" THEN << "cleanup", "attendance" >>
    ELSE << "cleanup", "messaging", "session", "attendance" >>

\* The services the shutdown handler stops, in order.
ServicesStopped(build) ==
    IF build = "index.ts" THEN << "cleanup", "attendance" >>
    ELSE << "cleanup", "messaging", "attendance" >>

\* The steps that return a SetupResult; startServer logs its success flag
\* and goes on either way.
StepsWithResult == { "setupDatabase", "validateAuthenticationSystem" }

HasReturned(step) == \E r \in returned : r.step = step

RECURSIVE startAll(_, _, _)
startAll(svcs, build, st) ==
    IF svcs = << >> THEN st
    ELSE startAll(Tail(svcs), build, startOf(Head(svcs), build, st))

RECURSIVE stopAll(_, _, _)
stopAll(svcs, build, st) ==
    IF svcs = << >> THEN st
    ELSE stopAll(Tail(svcs), build, stopOf(Head(svcs), build, st))

SeqRange(q) == { q[i] : i \in DOMAIN q }

\* process.exit: the process and its timers are gone.
Exit(code) ==
    /\ phase' = "exited"
    /\ exitCode' = code
    /\ listening' = FALSE
    /\ timers' = {}
    /\ UNCHANGED << handle, timerSeq >>

\* The next step of startServer returns, or throws: the rejection reaches
\* startServer().catch, which exits with code 1.
StartupStep ==
    \E throws \in BOOLEAN, success \in BOOLEAN :
        /\ phase = "starting"
        /\ ~success => /\ ~throws
                       /\ StartupOrder[pc] \in StepsWithResult
        /\ IF throws
           THEN /\ Exit(1)
                /\ startupThrew' = TRUE
                /\ UNCHANGED << pc, returned, everListened >>
           ELSE LET step == StartupOrder[pc]
                    st == IF step = "startServices"
                          THEN startAll(ServicesStarted(serverBuild),
                                        sessionBuild, TimerState)
                          ELSE TimerState
                IN  /\ timers' = st.timers
                    /\ handle' = st.handle
                    /\ timerSeq' = st.seq
                    /\ returned' = returned \cup
                                       { [step |-> step, success |-> success] }
                    /\ listening' = (listening \/ step = "listen")
                    /\ everListened' = (everListened \/ step = "listen")
                    /\ pc' = pc + 1
                    /\ phase' = IF pc = Len(StartupOrder) THEN "running"
                                ELSE phase
                    /\ UNCHANGED << startupThrew, exitCode >>
        /\ UNCHANGED << serverBuild, sessionBuild, stoppedSvcs, lateJobs,
                        shutdownRan, leftRunning, tickVars, workerVars,
                        attVars, authVars, reqVars, trkVars, userVars, wsVars >>

\* SIGTERM or SIGINT: the shutdown handler stops services and asks the
\* server to close.
Shutdown ==
    /\ phase \in { "running", "closing" }
    /\ LET st == stopAll(ServicesStopped(serverBuild), sessionBuild, TimerState)
       IN  /\ timers' = st.timers
           /\ handle' = st.handle
           /\ timerSeq' = st.seq
           /\ leftRunning' = { t.svc : t \in st.timers }
    /\ stoppedSvcs' = stoppedSvcs \cup SeqRange(ServicesStopped(serverBuild))
    /\ shutdownRan' = TRUE
    /\ phase' = "closing"
    /\ listening' = FALSE
    /\ UNCHANGED << serverBuild, sessionBuild, lateJobs, pc, returned,
                    everListened, startupThrew, exitCode, tickVars,
                    workerVars, attVars, authVars, reqVars, trkVars, userVars, wsVars >>

\* The callback of server.close: process.exit(0).
ServerClosed ==
    /\ phase = "closing"
    /\ Exit(0)
    /\ UNCHANGED << serverBuild, sessionBuild, stoppedSvcs, lateJobs, pc,
                    returned, everListened, startupThrew, shutdownRan,
                    leftRunning, tickVars, workerVars, attVars, authVars,
                    reqVars, trkVars, userVars, wsVars >>

(***************************************************************************)
(* The users table: setupDatabase and createUser                           *)
(* (src/unnamed/part_013, src/server/auth.ts, src/server/storage.ts)       *)
(***************************************************************************)

MaxCalls == 2
MaxSetups == 2

AdminName == << "a", "d", "m", "i", "n" >>
AdminEmail == << "a", "@" >>

\* .values({ username: 'admin', email: 'admin@hrplatform.com', ... })
DefaultAdmin ==
    [username |-> AdminName, email |-> AdminEmail,
     password |-> BcryptHash(<< "a", "1" >>, 10),
     role |-> "admin", isActive |-> TRUE]

\* storage.createUser({ username, email, password, role, ..., isActive })
NewUser(username, email, role) ==
    [username |-> username, email |-> email,
     password |-> BcryptHash(<< "p" >>, 10),
     role |-> role, isActive |-> TRUE]

\* Users tables the server can find at start.
UserBacklogs ==
    { << >>,
      << NewUser(<< "u" >>, << "p" >>, "employee") >>,
      << NewUser(AdminName, << "p" >>, "employee") >>,
      << NewUser(<< "u" >>, << "p" >>, "admin") >>,
      << NewUser(<< "u" >>, << "p" >>, "employee"),
         [NewUser(<< "r" >>, << "r" >>, "admin") EXCEPT !.isActive = FALSE] >> }

\* storage.getUserByEmail(email): whether a row has that email.
HasEmail(table, email) == \E i \in DOMAIN table : table[i].email = email

\* A unique index rejects the row.
ViolatesUnique(table, row) ==
    \/ getUserByUsername(table, row.username) # NoUser
    \/ HasEmail(table, row.email)

existingAdmin_ByName(allUsers) ==
    \E i \in DOMAIN allUsers : allUsers[i].username = AdminName

\* allUsers.find(user => user.role === 'admin')
existingAdmin(allUsers) ==
    \E i \in DOMAIN allUsers : allUsers[i].role = "admin"

\* The statements of setupDatabase that can fail.
SetupFailures == { "none", "connect", "select", "insert" }

\* setupDatabase: the users table it leaves and the success flag of its
\* result; failAt names the database statement that throws, if any.
setupDatabase(table, unique, failAt) ==
    IF failAt \in { "connect", "select" }
    THEN [table |-> table, success |-> FALSE]
    ELSE IF table # << >> /\ existingAdmin(table)
    THEN [table |-> table, success |-> TRUE]
    ELSE IF failAt = "insert" \/ (unique /\ ViolatesUnique(table, DefaultAdmin))
    THEN [table |-> table, success |-> FALSE]
    ELSE [table |-> Append(table, DefaultAdmin), success |-> TRUE]

NoSetup == [runs |-> 0, success |-> FALSE, before |-> << >>, after |-> << >>]

\* setupDatabase runs during startup, before the server takes requests.
SetupDatabase ==
    \E failAt \in SetupFailures :
        LET r == setupDatabase(users, uniqueIndex, failAt)
        IN  /\ regCalls = << >>
            /\ lastSetup.runs < MaxSetups
            /\ users' = r.table
            /\ lastSetup' = [runs |-> lastSetup.runs + 1,
                             success |-> r.success,
                             before |-> users, after |-> r.table]
            /\ UNCHANGED << regCalls, uniqueIndex, sessionStore, cookieJar,
                            lastLogin, lastReq, lastAuth, workerVars,
                            attVars, reqVars, trkVars, tickVars, timerVars,
                            procVars, wsVars >>

RegUsernames == { << "u" >>, << "v" >> }
RegEmails == { << "p" >>, << "q" >> }

UsersOthersUnchanged ==
    UNCHANGED << uniqueIndex, lastSetup, sessionStore, cookieJar, lastLogin,
                 lastReq, lastAuth, workerVars, attVars, reqVars, trkVars,
                 tickVars, timerVars, procVars, wsVars >>

\* createUser(username, email, ...) is called; the password is hashed.
BeginCreateUser ==
    \E username \in RegUsernames, email \in RegEmails :
        /\ Len(regCalls) < MaxCalls
        /\ regCalls' = Append(regCalls,
                              [at |-> "getUserByUsername",
                               username |-> username, email |-> email,
                               result |-> ""])
        /\ UNCHANGED users
        /\ UsersOthersUnchanged

\* await storage.getUserByUsername(username)
CheckUsername ==
    \E c \in DOMAIN regCalls :
        /\ regCalls[c].at = "getUserByUsername"
        /\ regCalls' =
               IF getUserByUsername(users, regCalls[c].username) # NoUser
               THEN [regCalls EXCEPT ![c].at = "done",
                                     ![c].result = "Username already exists"]
               ELSE [regCalls EXCEPT ![c].at = "getUserByEmail"]
        /\ UNCHANGED users
        /\ UsersOthersUnchanged

\* await storage.getUserByEmail(email)
CheckEmail ==
    \E c \in DOMAIN regCalls :
        /\ regCalls[c].at = "getUserByEmail"
        /\ regCalls' =
               IF HasEmail(users, regCalls[c].email)
               THEN [regCalls EXCEPT ![c].at = "done",
                                     ![c].result = "Email already exists"]
               ELSE [regCalls EXCEPT ![c].at = "createUser"]
        /\ UNCHANGED users
        /\ UsersOthersUnchanged

\* await storage.createUser({...}): the insert; a unique index, if the
\* table has one, rejects a duplicate with the database's own error.
InsertUser ==
    \E c \in DOMAIN regCalls :
        LET row == NewUser(regCalls[c].username, regCalls[c].email, "employee")
        IN  /\ regCalls[c].at = "createUser"
            /\ IF uniqueIndex /\ ViolatesUnique(users, row)
               THEN /\ regCalls' =
                          [regCalls EXCEPT ![c].at = "done",
                                           ![c].result = "duplicate key value"]
                    /\ UNCHANGED users
               ELSE /\ users' = Append(users, row)
                    /\ regCalls' = [regCalls EXCEPT ![c].at = "done",
                                                    ![c].result = "created"]
            /\ UsersOthersUnchanged

(***************************************************************************)
(* The WebSocket server (src/server/routes-broken.ts)                      *)
(***************************************************************************)

MaxSockets == 3

\* url.searchParams.get('userId'): a user id, the empty string or null.
NoUserId == "null"
UserIdParams == { "1", "2", "", NoUserId }

\* if (userId): null and the empty string are falsy.
Truthy(userId) == userId # NoUserId /\ userId # ""

\* message.recipientId, a number or absent; user.id.toString()
RecipientIds == 1..3
toString(id) == << "1", "2", "3" >>[id]

\* storage.getGroupMembers(groupId), for the groups of the messages.
GroupMembers == { {}, { 1, 2 } }

NoSocket == 0

\* clients = new Map()
NoClients == [userId \in { "1", "2", "3" } |-> NoSocket]

NoChat == [done |-> FALSE, type |-> "", group |-> FALSE, targets |-> {},
           sentTo |-> {}, clientsThen |-> NoClients]

WsOthersUnchanged ==
    UNCHANGED << workerVars, attVars, authVars, reqVars, trkVars, tickVars,
                 timerVars, procVars, userVars >>

\* wss.on('connection'): a truthy userId is registered, replacing the
\* connection the map held for it.
Connection ==
    \E userId \in UserIdParams :
        /\ Len(sockets) < MaxSockets
        /\ sockets' = Append(sockets, [userId |-> userId, readyState |-> "OPEN"])
        /\ clients' = IF Truthy(userId)
                      THEN [clients EXCEPT ![userId] = Len(sockets) + 1]
                      ELSE clients
        /\ UNCHANGED lastChat
        /\ WsOthersUnchanged

\* The closing handshake starts: readyState is CLOSING until 'close' fires.
StartClosing ==
    \E s \in DOMAIN sockets :
        /\ sockets[s].readyState = "OPEN"
        /\ sockets' = [sockets EXCEPT ![s].readyState = "CLOSING"]
        /\ UNCHANGED << clients, lastChat >>
        /\ WsOthersUnchanged

\* ws.on('close'): clients.delete(userId), whichever connection the map
\* holds for that userId.
Close ==
    \E s \in DOMAIN sockets :
        /\ sockets[s].readyState # "CLOSED"
        /\ sockets' = [sockets EXCEPT ![s].readyState = "CLOSED"]
        /\ clients' = IF Truthy(sockets[s].userId)
                      THEN [clients EXCEPT ![sockets[s].userId] = NoSocket]
                      ELSE clients
        /\ UNCHANGED lastChat
        /\ WsOthersUnchanged

\* The sockets the forEach of the message handler sends to.
sendTargets(socks, map, targetUsers) ==
    { map[toString(id)] : id \in targetUsers } \cap
    { s \in DOMAIN socks : socks[s].readyState = "OPEN" }

\* ws.on('message'): a chat_message goes to the registered connection of
\* the recipient, or of each group member, if that connection is OPEN.
Message ==
    \E s \in DOMAIN sockets, type \in { "chat_message", "typing" },
       group \in BOOLEAN :
        \E targetUsers \in IF group THEN GroupMembers
                           ELSE { { id } : id \in RecipientIds } :
            /\ sockets[s].readyState = "OPEN"
            /\ lastChat' =
                   [done |-> TRUE, type |-> type, group |-> group,
                    targets |-> targetUsers,
                    sentTo |-> IF type = "chat_message"
                               THEN sendTargets(sockets, clients, targetUsers)
                               ELSE {},
                    clientsThen |-> clients]
            /\ UNCHANGED << sockets, clients >>
            /\ WsOthersUnchanged

WsIdle ==
    /\ sockets = << >>
    /\ clients = NoClients
    /\ lastChat = NoChat

(***************************************************************************)
(* Specifications                                                          *)
(***************************************************************************)

WorkerIdle ==
    /\ wInput = << >>
    /\ wOutput = << >>
    /\ wReplied = FALSE

AttIdle ==
    /\ attendance = << >>
    /\ now = FirstInstant
    /\ lastReset = NoReset

AuthIdle ==
    /\ users = << >>
    /\ sessionStore = << >>
    /\ cookieJar = NoCookie
    /\ lastLogin = NoLogin
    /\ lastReq = NoReq
    /\ lastAuth = NoAuthCall

ReqIdle ==
    /\ leaveRequests = << >>
    /\ overtimeRequests = << >>
    /\ nextId = [leave |-> 1, overtime |-> 1]
    /\ reqNow = ReqEpoch
    /\ created = 0
    /\ lastCreate = NoCreate
    /\ lastCleanup = NoCleanup

TrkIdle ==
    /\ tracker = "none"
    /\ attendanceRecord = NoRecord
    /\ totalWorkHours = DefaultWorkHours
    /\ existingTimeEntries = << >>
    /\ timeAllocations = << >>
    /\ isEditing = FALSE
    /\ mutation = NoMutation
    /\ lastSave = NoSave

TickIdle ==
    /\ nextTick = 0
    /\ ticking = FALSE
    /\ resetCount = 0

TimersIdle ==
    /\ timers = {}
    /\ handle = NoHandles
    /\ timerSeq = 1
    /\ sessionBuild = "ts"
    /\ stoppedSvcs = {}
    /\ lateJobs = {}

ProcIdle ==
    /\ serverBuild = "index.ts"
    /\ phase = "none"
    /\ pc = 1
    /\ returned = {}
    /\ listening = FALSE
    /\ everListened = FALSE
    /\ startupThrew = FALSE
    /\ exitCode = Null
    /\ shutdownRan = FALSE
    /\ leftRunning = {}

UsersIdle ==
    /\ regCalls = << >>
    /\ uniqueIndex = FALSE
    /\ lastSetup = NoSetup

SvcIdle ==
    /\ TickIdle
    /\ TimersIdle
    /\ ProcIdle
    /\ UsersIdle
    /\ WsIdle

\* The page posts one PROCESS_ATTENDANCE_DATA message with some batch.
WorkerInit ==
    /\ wInput \in WBatches
    /\ wOutput = << >>
    /\ wReplied = FALSE
    /\ AttIdle
    /\ AuthIdle
    /\ ReqIdle
    /\ TrkIdle
    /\ SvcIdle

SpecWorker == WorkerInit /\ [][WorkerMessage]_vars

AttInit ==
    /\ WorkerIdle
    /\ AttIdle
    /\ AuthIdle
    /\ ReqIdle
    /\ TrkIdle
    /\ SvcIdle

AttNext ==
    \/ Tick
    \/ CheckIn
    \/ CheckOut
    \/ PerformScheduledTasks
    \/ TriggerMidnightReset
    \/ WorkerProcessAttendance

SpecAttendance == AttInit /\ [][AttNext]_vars

AuthInit ==
    /\ users \in UserTables
    /\ sessionStore \in SessionStores
    /\ cookieJar \in { NoCookie } \cup DOMAIN sessionStore
    /\ lastLogin = NoLogin
    /\ lastReq = NoReq
    /\ lastAuth = NoAuthCall
    /\ WorkerIdle
    /\ AttIdle
    /\ ReqIdle
    /\ TrkIdle
    /\ SvcIdle

AuthNext == Login \/ Request

SpecAuth == AuthInit /\ [][AuthNext]_vars

ReqInit ==
    /\ \E b \in LeaveBacklogs :
           leaveRequests = BacklogTable(b[1], b[2], b[3])
    /\ \E c1 \in OvertimeBacklogs :
           overtimeRequests =
               [i \in 1..c1 |->
                   [id |-> i, status |-> "pending", ts |-> i, userId |-> 1]]
    /\ nextId = [leave |-> Len(leaveRequests) + 1,
                 overtime |-> Len(overtimeRequests) + 1]
    /\ reqNow = ReqEpoch
    /\ created = 0
    /\ lastCreate = NoCreate
    /\ lastCleanup = NoCleanup
    /\ WorkerIdle
    /\ AttIdle
    /\ AuthIdle
    /\ TrkIdle
    /\ SvcIdle

ReqNext ==
    \/ PostLeaveRequest
    \/ CreateOvertime
    \/ ReqTick
    \/ PerformCleanup

SpecRequests == ReqInit /\ [][ReqNext]_vars

\* One of the two components is mounted; its queries have no data yet.
TrkInit ==
    /\ tracker \in { "basic", "enhanced" }
    /\ attendanceRecord = NoRecord
    /\ totalWorkHours = DefaultWorkHours
    /\ existingTimeEntries = << >>
    /\ timeAllocations = << >>
    /\ isEditing = FALSE
    /\ mutation = NoMutation
    /\ lastSave = NoSave
    /\ WorkerIdle
    /\ AttIdle
    /\ AuthIdle
    /\ ReqIdle
    /\ SvcIdle

TrkNext ==
    \/ SelectDate
    \/ StartEditing
    \/ CancelEditing
    \/ AddProjectAllocation
    \/ UpdateHours
    \/ UpdateDescription
    \/ RemoveAllocation
    \/ AutoDistributeHours
    \/ SaveAllocations
    \/ MutationSuccess
    \/ MutationError

SpecTracker == TrkInit /\ [][TrkNext]_vars

\* attendanceScheduler.start() at some instant before midnight.
TickInit ==
    /\ now \in StartInstants
    /\ nextTick = now + TickPeriod
    /\ ticking = FALSE
    /\ resetCount = 0
    /\ attendance \in { << >>, << OpenRow >> }
    /\ lastReset = NoReset
    /\ WorkerIdle
    /\ AuthIdle
    /\ ReqIdle
    /\ TrkIdle
    /\ TimersIdle
    /\ ProcIdle
    /\ UsersIdle
    /\ WsIdle

TickNext == TimerDue \/ SchedulerTick

SpecTicker == TickInit /\ [][TickNext]_vars

\* The services are constructed; none is started.
TimersInit ==
    /\ timers = {}
    /\ handle = NoHandles
    /\ timerSeq = 1
    /\ sessionBuild \in { "ts", "part_012" }
    /\ stoppedSvcs = {}
    /\ lateJobs = {}
    /\ TickIdle
    /\ WorkerIdle
    /\ AttIdle
    /\ AuthIdle
    /\ ReqIdle
    /\ TrkIdle
    /\ ProcIdle
    /\ UsersIdle
    /\ WsIdle

TimersNext == StartService \/ StopService \/ TimerFires

SpecTimers == TimersInit /\ [][TimersNext]_vars

\* node runs the entry point: startServer() is called.
ServerInit ==
    /\ serverBuild \in { "index.ts", "part_014" }
    /\ sessionBuild \in { "ts", "part_012" }
    /\ phase = "starting"
    /\ pc = 1
    /\ returned = {}
    /\ listening = FALSE
    /\ everListened = FALSE
    /\ startupThrew = FALSE
    /\ exitCode = Null
    /\ shutdownRan = FALSE
    /\ leftRunning = {}
    /\ timers = {}
    /\ handle = NoHandles
    /\ timerSeq = 1
    /\ stoppedSvcs = {}
    /\ lateJobs = {}
    /\ TickIdle
    /\ WorkerIdle
    /\ AttIdle
    /\ AuthIdle
    /\ ReqIdle
    /\ TrkIdle
    /\ UsersIdle
    /\ WsIdle

ServerNext ==
    \/ StartupStep
    \/ Shutdown
    \/ ServerClosed
    \/ TimerFires

SpecServer == ServerInit /\ [][ServerNext]_vars

\* The database as the server finds it; no request has arrived.
UsersInit ==
    /\ users \in UserBacklogs
    /\ uniqueIndex \in BOOLEAN
    /\ regCalls = << >>
    /\ lastSetup = NoSetup
    /\ sessionStore = << >>
    /\ cookieJar = NoCookie
    /\ lastLogin = NoLogin
    /\ lastReq = NoReq
    /\ lastAuth = NoAuthCall
    /\ WorkerIdle
    /\ AttIdle
    /\ ReqIdle
    /\ TrkIdle
    /\ TickIdle
    /\ TimersIdle
    /\ ProcIdle
    /\ WsIdle

UsersNext ==
    \/ SetupDatabase
    \/ BeginCreateUser
    \/ CheckUsername
    \/ CheckEmail
    \/ InsertUser

SpecUsers == UsersInit /\ [][UsersNext]_vars

\* The WebSocket server after registerRoutes: no connection yet.
WsInit ==
    /\ WorkerIdle
    /\ AttIdle
    /\ AuthIdle
    /\ ReqIdle
    /\ TrkIdle
    /\ TickIdle
    /\ TimersIdle
    /\ ProcIdle
    /\ UsersIdle
    /\ WsIdle

WsNext ==
    \/ Connection
    \/ StartClosing
    \/ Close
    \/ Message

SpecWebSocket == WsInit /\ [][WsNext]_vars

(***************************************************************************)
(* Properties                                                              *)
(***************************************************************************)

WIdx == 1..Len(wInput)

\* C7: for every pair of check-in and check-out values the overtime of the
\* processed record is max(0, worked hours - 8): never negative, 0 when a
\* timestamp is missing or at most 8 hours were worked, and worked hours
\* minus overtime never exceeds 8.
ThmC7 ==
    wReplied =>
        \A i \in WIdx :
            LET ci == wInput[i].checkIn
                co == wInput[i].checkOut
                wh == wOutput[i].totalHours
                ov == wOutput[i].overtime
            IN  /\ ov >= 0
                /\ (ci = Null \/ co = Null) => ov = 0
                /\ (ci # Null /\ co # Null /\ co - ci <= 8 * MsPerHour) => ov = 0
                /\ wh <= 800 => ov = 0
                /\ wh > 800 => ov = wh - 800
                /\ wh - ov <= 800

\* A processed batch with a record over 8 hours and a record without check-in.
WitC7 ==
    /\ wReplied
    /\ \E i \in WIdx : wOutput[i].overtime > 0
    /\ \E i \in WIdx : wInput[i].checkIn = Null /\ wInput[i].checkOut # Null

\* The status the timestamps alone determine.
StatusOfTimestamps(ci, co) ==
    IF ci = Null THEN "absent" ELSE IF co = Null THEN "present" ELSE "completed"

\* C8 as stated: the status of every processed record is derived from its
\* timestamps alone and every input field other than status is kept.
CxC8 ==
    wReplied =>
        \A i \in WIdx :
            /\ wOutput[i].status =
                   StatusOfTimestamps(wInput[i].checkIn, wInput[i].checkOut)
            /\ \A k \in (DOMAIN wInput[i]) \ {"status"} :
                   wOutput[i][k] = wInput[i][k]

\* C8 amended: the status of every processed record is derived from its
\* timestamps alone; every input field other than status, totalHours and
\* overtime is kept, and totalHours and overtime are (re)computed from the
\* timestamps, replacing any value the input carried.
ThmC8 ==
    wReplied =>
        /\ Len(wOutput) = Len(wInput)
        /\ \A i \in WIdx :
            LET ci == wInput[i].checkIn
                co == wInput[i].checkOut
            IN  /\ wOutput[i].status = StatusOfTimestamps(ci, co)
                /\ DOMAIN wOutput[i] =
                       (DOMAIN wInput[i]) \cup {"status", "totalHours", "overtime"}
                /\ \A k \in (DOMAIN wInput[i]) \ {"status", "totalHours", "overtime"} :
                       wOutput[i][k] = wInput[i][k]
                /\ (ci # Null /\ co # Null) =>
                       /\ 2 * (wOutput[i].totalHours * MsPerCentiHour - (co - ci))
                              <= MsPerCentiHour
                       /\ 2 * ((co - ci) - wOutput[i].totalHours * MsPerCentiHour)
                              < MsPerCentiHour
                /\ (ci = Null \/ co = Null) => wOutput[i].totalHours = 0

\* A processed record that arrived with status 'incomplete' and a totalHours
\* field, next to one without check-in.
WitC8 ==
    /\ wReplied
    /\ \E i \in WIdx :
          /\ "totalHours" \in DOMAIN wInput[i]
          /\ wInput[i].status = "incomplete"
          /\ wOutput[i].status = "completed"
          /\ wOutput[i].totalHours # wInput[i].totalHours
    /\ \E i \in WIdx : wOutput[i].status = "absent"

\* hours (in hundredths) is check-out minus check-in, expressed in hours to
\* two decimals.
HoursMatch(hours, checkIn, checkOut) ==
    /\ 2 * (hours * MsPerCentiHour - (checkOut - checkIn)) <= MsPerCentiHour
    /\ 2 * ((checkOut - checkIn) - hours * MsPerCentiHour) < MsPerCentiHour

BothTimes(r) == r.checkIn # Null /\ r.checkOut # Null

ThmC5 ==
    (lastReset.ran /\ lastReset.ok) =>
        /\ (lastReset.yesterday + 1) % MsPerDay = 0
        /\ lastReset.yesterday < lastReset.at
        /\ lastReset.at - lastReset.yesterday <= MsPerDay
        /\ \A i \in DOMAIN attendance :
              (attendance[i].checkIn # Null
                  /\ attendance[i].checkIn < lastReset.yesterday)
              => attendance[i].checkOut # Null
        /\ \A i \in lastReset.selected :
              /\ attendance[i].checkOut = lastReset.yesterday
              /\ attendance[i].workingHours = 0
              /\ attendance[i].overtimeHours = 0
              /\ attendance[i].status = "incomplete"

\* A reset ran without error, closed a row, and left open a row checked in
\* at or after the cut-off.
WitC5 ==
    /\ lastReset.ran /\ lastReset.ok
    /\ lastReset.selected # {}
    /\ \E i \in DOMAIN attendance :
          /\ attendance[i].checkOut = Null
          /\ attendance[i].checkIn >= lastReset.yesterday

\* C3 as stated: after a successful POST /api/login, a later request that
\* carries the session cookie the login left with the client (and no
\* Authorization header) is authenticated as the logged-in user, so a
\* handler guarded by requireAuth, or by requireRole with the user's role,
\* is reached.
CxC3 ==
    (lastReq.done /\ lastReq.afterLogin /\ ~lastReq.dbError
        /\ lastReq.header = NoHeader)
    => /\ lastReq.reqUser = lastLogin.user
       /\ (\A i \in DOMAIN lastReq.guards :
              lastReq.guards[i].kind = "requireRole" =>
                  users[lastLogin.user].role \in lastReq.guards[i].roles)
          => lastReq.handler

\* C4: authenticateUser returns the stored user exactly when a user with
\* that username exists, is active and the supplied password matches the
\* stored hash; in every other case that is not an error it returns null;
\* and it leaves the users table as it was.
ThmC4 ==
    lastAuth.called =>
        LET T == lastAuth.usersBefore
            Match(i) ==
                /\ T[i].username = lastAuth.username
                /\ T[i].isActive
                /\ lastAuth.password # Undefined
                /\ BcryptHash(lastAuth.password, T[i].password.salt) = T[i].password
        IN  /\ lastAuth.result.kind = "user" =>
                /\ lastAuth.result.id \in DOMAIN T
                /\ Match(lastAuth.result.id)
            /\ (lastAuth.result.kind # "throw" /\ \E i \in DOMAIN T : Match(i))
                   => lastAuth.result.kind = "user"
            /\ (lastAuth.result.kind # "throw" /\ ~\E i \in DOMAIN T : Match(i))
                   => lastAuth.result = AuthNull
            /\ users = T

\* authenticateUser returned a user although another account, with the
\* same password, is deactivated.
WitC4 ==
    /\ lastAuth.called
    /\ lastAuth.result.kind = "user"
    /\ \E i \in DOMAIN users :
          /\ ~users[i].isActive
          /\ users[i].password.pw = lastAuth.password

\* C9: the handler behind requireRole(roles) runs only when req.user is set
\* and has one of the roles, and otherwise requireRole answers 403
\* 'Insufficient permissions' without calling next; the handler behind
\* requireAuth runs only when req.user is set, and otherwise requireAuth
\* answers 401 'Authentication required'.
ThmC9 ==
    lastReq.done =>
        LET U == lastReq.reqUser
            Allowed(g) ==
                /\ U # NoUser
                /\ g.kind = "requireRole" => users[U].role \in g.roles
            G == lastReq.guards
        IN  /\ lastReq.handler <=> \A i \in DOMAIN G : Allowed(G[i])
            /\ ~lastReq.handler =>
                  \E i \in DOMAIN G :
                      /\ ~Allowed(G[i])
                      /\ \A j \in 1..(i - 1) : Allowed(G[j])
                      /\ lastReq.by = G[i].kind
                      /\ G[i].kind = "requireRole" =>
                            /\ lastReq.status = 403
                            /\ lastReq.error = "Insufficient permissions"
                      /\ G[i].kind = "requireAuth" =>
                            /\ lastReq.status = 401
                            /\ lastReq.error = "Authentication required"

\* requireRole turned away an authenticated user whose role is not listed.
WitC9 ==
    /\ lastReq.done
    /\ lastReq.reqUser # NoUser
    /\ ~lastReq.handler
    /\ lastReq.by = "requireRole"
    /\ lastReq.status = 403

RowSet(table, userId) ==
    { table[i] : i \in { j \in DOMAIN table : table[j].userId = userId } }

Smaller(a, b) == IF a < b THEN a ELSE b

KeepsLatest(before, after) ==
    \A u \in ReqUsers :
        LET b == RowSet(before, u)
            a == RowSet(after, u)
        IN  /\ a \subseteq b
            /\ Cardinality(a) = Smaller(Cardinality(b), KeepCount)
            /\ \A x \in a, y \in b \ a : x.ts >= y.ts

CxC10 ==
    lastCleanup.done =>
        /\ lastCleanup.leaveOk =>
               KeepsLatest(lastCleanup.leaveBefore, leaveRequests)
        /\ lastCleanup.overtimeOk =>
               KeepsLatest(lastCleanup.overtimeBefore, overtimeRequests)

\* The hours available for the selected date, as each tracker shows them:
\* the attendance record's hours; without a record or without hours, 0 in
\* the basic tracker and the default 8 hours in the enhanced one.
AvailableForDate ==
    IF attendanceRecord.found /\ attendanceRecord.hours > 0
    THEN attendanceRecord.hours
    ELSE IF tracker = "enhanced" THEN DefaultWorkHours ELSE 0

RECURSIVE SumHours(_, _)
SumHours(allocations, n) ==
    IF n = 0 THEN 0 ELSE allocations[n].hours + SumHours(allocations, n - 1)

Acceptable(allocations) ==
    /\ SumHours(allocations, Len(allocations)) <= AvailableForDate
    /\ \A i \in DOMAIN allocations : allocations[i].hours > 0
    /\ tracker = "enhanced" =>
           \A i \in DOMAIN allocations :
               \E j \in DOMAIN allocations[i].description :
                   allocations[i].description[j] # " "

\* C6: saveAllocations issues the save request exactly if the allocated
\* hours sum to at most the hours available for the selected date, every
\* allocation has hours > 0 and, in the enhanced tracker, a non-blank
\* description; the request carries the allocation list.  In every other
\* case no request is issued.  In both cases the allocation list and the
\* editing flag are left as they were.
ThmC6 ==
    lastSave.called =>
        /\ timeAllocations = lastSave.before
        /\ isEditing = lastSave.editingBefore
        /\ IF Acceptable(lastSave.before)
           THEN mutation = [pending |-> TRUE, payload |-> lastSave.before]
           ELSE mutation = lastSave.mutationBefore /\ ~mutation.pending

WitC6 ==
    /\ lastSave.called
    /\ tracker = "enhanced"
    /\ ~attendanceRecord.found
    /\ mutation.pending
    /\ Len(mutation.payload) = MaxProjects
    /\ SumHours(mutation.payload, Len(mutation.payload)) = AvailableForDate

\* A row the midnight reset has to leave alone at the present instant.
OutsideReset(record) ==
    \/ record.checkOut # Null
    \/ record.checkIn = Null
    \/ record.checkIn > YesterdayEnd(now)

\* The table a reset at the present instant leaves when it runs to its end.
ResetOnce(table) == ResetTable(table, YesterdayEnd(now), Len(table))

\* C12: handleMidnightReset, run on any attendance table the system can
\* hold and stoppedSvcs by an error or not, leaves unchanged every record
\* that already has a check-out and every record whose check-in is later
\* than 23:59:59.999 of the previous day; running it twice in a row yields
\* the same table as running it once; and after a reset that ran to its
\* end no row of that day is left for another reset.
ThmC12 ==
    /\ \A done \in 0..Len(attendance) :
           \A i \in DOMAIN attendance :
               OutsideReset(attendance[i]) =>
                   ResetTable(attendance, YesterdayEnd(now), done)[i]
                       = attendance[i]
    /\ ResetOnce(ResetOnce(attendance)) = ResetOnce(attendance)
    /\ ( /\ lastReset.ran
         /\ lastReset.ok
         /\ StartOfDay(now) = StartOfDay(lastReset.at) )
           => UncompletedRecords(attendance, YesterdayEnd(now)) = {}

WitC12 ==
    /\ lastReset.ran
    /\ lastReset.ok
    /\ lastReset.selected # {}
    /\ \E i \in DOMAIN attendance :
           /\ attendance[i].status = "completed"
           /\ attendance[i].checkIn < lastReset.yesterday
    /\ \E i \in DOMAIN attendance : attendance[i].status = "incomplete"

\* The user the session of the last request yields: storage.getUser of its
\* userId, unless there is none or the lookup threw.
SessionYield ==
    IF lastReq.sessError THEN NoUser
    ELSE getUser(users, SessionUserId(sessionStore, lastReq.cookie))

\* C17: authMiddleware calls next exactly once for every request and sends
\* no response itself, whether authentication succeeds, fails or a lookup
\* throws; it calls authenticateUser with the Bearer token only when the
\* session yielded no user; and req.user is either unset or the user
\* returned by storage.getUser or by authenticateUser.
ThmC17 ==
    lastReq.done =>
        /\ lastReq.nextCalls = 1
        /\ lastReq.mwResponses = 0
        /\ lastReq.auth.called =>
               /\ SessionYield = NoUser
               /\ lastReq.header.scheme = "Bearer"
        /\ lastReq.reqUser # NoUser =>
               \/ lastReq.reqUser = SessionYield
               \/ /\ lastReq.auth.called
                  /\ lastReq.auth.result = AuthUser(lastReq.reqUser)
        /\ (SessionYield # NoUser) => lastReq.reqUser = SessionYield

WitC17 ==
    /\ lastReq.done
    /\ lastReq.sessError
    /\ SessionUserId(sessionStore, lastReq.cookie) # NoUser
    /\ lastReq.auth.called
    /\ lastReq.auth.result.kind = "user"
    /\ lastReq.reqUser = lastReq.auth.result.id

\* C18 as stated: a user whose isActive flag is false is never attached as
\* req.user, neither through the Bearer token nor through an existing
\* session, and so reaches no guarded handler.
CxC18 ==
    (lastReq.done /\ lastReq.reqUser # NoUser) =>
        users[lastReq.reqUser].isActive

\* C19 as stated: the token returned by a successful login, presented as
\* Bearer token on a request without a session, authenticates the user
\* who logged in.
CxC19 ==
    ( /\ lastReq.done
      /\ lastReq.afterLogin
      /\ ~lastReq.dbError
      /\ lastReq.cookie \notin DOMAIN sessionStore
      /\ lastReq.header = Bearer(Token(lastLogin.username, lastLogin.password)) )
    => lastReq.reqUser = lastLogin.user

\* C11 as stated: while the scheduler is running, the midnight reset is
\* executed exactly once for the midnight that passes: never twice, and
\* once the 00:00 minute is over it has been executed.
CxC11 ==
    /\ resetCount <= 1
    /\ now >= Midnight + MsPerMinute => resetCount = 1

\* C13 as stated: for any sequence of start() and stop() calls on the
\* attendance scheduler or the session cleanup service, once stop() has
\* returned no further scheduled job of that service begins.
CxC13 == lateJobs = {}

\* C14 as stated: on SIGTERM or SIGINT the shutdown handler stops every
\* background service that startServer started, before the server is
\* closed and the process exits: when the handler has run, no service has
\* a timer left.
CxC14 == shutdownRan => leftRunning = {}

\* C15: the background services are started and the server listens only
\* after setupDatabase and validateAuthenticationSystem have both
\* returned; and if a step of startServer throws, the server has never
\* listened and the process exits with code 1.
ThmC15 ==
    /\ (timers # {} \/ timerSeq > 1 \/ listening \/ everListened) =>
           /\ HasReturned("setupDatabase")
           /\ HasReturned("validateAuthenticationSystem")
    /\ startupThrew =>
           /\ ~everListened
           /\ ~listening
           /\ phase = "exited"
           /\ exitCode = 1
    /\ exitCode = 1 => startupThrew

WitC15 ==
    /\ startupThrew
    /\ HasReturned("startServices")
    /\ [step |-> "setupDatabase", success |-> FALSE] \in returned
    /\ exitCode = 1

HasAdminRow(table) == \E i \in DOMAIN table : table[i].role = "admin"

\* C16: whenever setupDatabase returns success: true the users table
\* contains a user with role 'admin'; when an admin already exists it
\* inserts no user, so a run directly after a successful one leaves the
\* users table unchanged; and it never removes or alters a row.
ThmC16 ==
    lastSetup.runs > 0 =>
        /\ lastSetup.success => HasAdminRow(lastSetup.after)
        /\ HasAdminRow(lastSetup.before) => lastSetup.after = lastSetup.before
        /\ SubSeq(lastSetup.after, 1, Len(lastSetup.before)) = lastSetup.before
        /\ lastSetup.success => HasAdminRow(users)

WitC16 ==
    /\ lastSetup.runs = MaxSetups
    /\ lastSetup.success
    /\ lastSetup.after = lastSetup.before
    /\ Len(users) = 2
    /\ users[1].username = AdminName
    /\ users[1].role = "employee"
    /\ users[2] = DefaultAdmin

CallsDone == \A c \in DOMAIN regCalls : regCalls[c].at = "done"

\* C20 as stated: after any interleaving of concurrent createUser calls no
\* two stored users share a username and no two share an email; of several
\* calls that use the same username (or email) at most one creates a user
\* and the others fail with 'Username already exists' (or 'Email already
\* exists').
CxC20 ==
    CallsDone =>
        /\ \A c, d \in DOMAIN regCalls :
               ( /\ c # d
                 /\ \/ regCalls[c].username = regCalls[d].username
                    \/ regCalls[c].email = regCalls[d].email )
               => /\ ~(regCalls[c].result = "created"
                         /\ regCalls[d].result = "created")
                  /\ \/ regCalls[c].result \in
                           { "Username already exists", "Email already exists" }
                     \/ regCalls[d].result \in
                           { "Username already exists", "Email already exists" }
        /\ \A i, j \in DOMAIN users :
               ( /\ i > Len(lastSetup.after)
                 /\ j > Len(lastSetup.after)
                 /\ i # j )
               => /\ users[i].username # users[j].username
                  /\ users[i].email # users[j].email

OpenSocketsOf(userId) ==
    { s \in DOMAIN sockets :
        sockets[s].userId = userId /\ sockets[s].readyState = "OPEN" }

\* C21 as stated: for every interleaving of connection and close events a
\* user with at least one open connection opened with its userId has an
\* entry in the clients map that points to an open connection of that user,
\* so a chat_message addressed to that user is sent to it; and a
\* chat_message with a recipientId is sent to no socket other than the one
\* registered for that recipient.
CxC21 ==
    /\ \A userId \in { "1", "2" } :
           OpenSocketsOf(userId) # {} => clients[userId] \in OpenSocketsOf(userId)
    /\ ( /\ lastChat.done
         /\ lastChat.type = "chat_message"
         /\ ~lastChat.group )
       => \A id \in lastChat.targets :
              lastChat.sentTo \subseteq { lastChat.clientsThen[toString(id)] }

====
